---------------------------- MODULE Spec2Model ----------------------------
(***************************************************************************)
(* md-preview: the event loop of src/main.rs (lines 71-429) as a state     *)
(* machine.  One action per match arm of the loop.  The output sink        *)
(* (termcolor's StandardStream) is the sequence `out` of items: one item   *)
(* per character written and one item per style directive.                 *)
(*                                                                         *)
(* The tokenizer (pulldown-cmark) is the environment: it produces the next *)
(* event of a well-formed stream, chosen from the family of documents      *)
(* `mode` names.  `hist`, `row` and `rows` record what it has produced;    *)
(* the renderer never reads them.  The catch-all arms `_ => {}` (tags and  *)
(* events the loop ignores) are not modelled.                              *)
(***************************************************************************)
EXTENDS Integers, Sequences, FiniteSets, TLC

(* ------------------------------ bounds --------------------------------- *)
\* events consumed in one run of a general document
MaxEvents == 4
\* events consumed in one run of a document of inline constructs
MaxInlineEvents == 6
\* events consumed in one run of a document that is one table
MaxTableEvents == 20
\* events consumed in one run of a document that is one short table
MaxShortTableEvents == 8
\* events consumed in one run of a table with styled cells
MaxStyledEvents == 10
\* events consumed in one run of a table of two rows of plain text
MaxRowsEvents == 13
\* events consumed in one run of a stream that need not be well-formed
MaxMalformedEvents == 3
\* events consumed in one run whose sink may fail
MaxSinkEvents == 3
\* cells per table row, body rows per table, leaf events inside one cell
MaxCells == 2
MaxRows == 1
MaxCellEvents == 1
\* nesting depth of open constructs
MaxDepth == 3
\* largest value of the --center option
MaxCenter == 2

(* ------------------------- output items -------------------------------- *)
NL == "\n"
TAB == "\t"
SP == " "
Backtick == "backtick"
Reset == "<reset>"
heading_color == "<heading>"
strong_color == "<strong>"
emphasis_color == "<emphasis>"
strikethrough_color == "<strikethrough>"
blockquote_color == "<blockquote>"
code_color == "<code>"
fence_color == "<fence>"
rule_color == "<rule>"
table_header_color == "<table_header>"
table_border_color == "<table_border>"

Directives ==
  {Reset, heading_color, strong_color, emphasis_color, strikethrough_color,
   blockquote_color, code_color, fence_color, rule_color, table_header_color,
   table_border_color}

\* "x".repeat(n)
RECURSIVE Repeat(_, _)
Repeat(s, n) == IF n <= 0 THEN <<>> ELSE s \o Repeat(s, n - 1)

\* the characters of an output, the style directives stripped
RECURSIVE Visible(_)
Visible(s) ==
  IF s = <<>> THEN <<>>
  ELSE IF Head(s) \in Directives THEN Visible(Tail(s))
       ELSE <<Head(s)>> \o Visible(Tail(s))

RECURSIVE Count(_, _)
Count(c, s) ==
  IF s = <<>> THEN 0
  ELSE (IF Head(s) = c THEN 1 ELSE 0) + Count(c, Tail(s))

\* str::len(): the UTF-8 length in bytes (all modelled characters are ASCII)
StrLen(s) == Len(s)

(* ------------------------- event source -------------------------------- *)
Name == <<"N", "a", "m", "e">>
Age == <<"A", "g", "e">>
Ann == <<"A", "n", "n">>
Thirty == <<"3", "0">>
Lang == <<"r", "s">>

Alignments == {"None", "Left", "Center", "Right"}
TableAlignments == {<<"Left", "Right">>, <<"Center", "None">>, <<"Right">>}

NoEvent == [kind |-> "None", tag |-> "", level |-> 0, text |-> <<>>, aligns |-> <<>>]
StartEv(t) == [NoEvent EXCEPT !.kind = "Start", !.tag = t]
EndEv(t) == [NoEvent EXCEPT !.kind = "End", !.tag = t]
LeafEv(k, s) == [NoEvent EXCEPT !.kind = k, !.text = s]
Eof == [NoEvent EXCEPT !.kind = "Eof"]

VARIABLES
  symbol,   \* args.symbol
  center,   \* args.center
  rs,       \* the mutable locals of main (text_level .. column_widths)
  out,      \* everything written to stdout so far
  status,   \* "running" | "done" (Ok(())) | "aborted" (an Err returned by `?`)
  open,     \* the tokenizer's stack of open tags
  budget,   \* events the tokenizer may still produce
  mode,     \* the family of documents the tokenizer produces
  sink,     \* "reliable" | "unreliable" (a call may fail) | "failed"
  hist,     \* the events consumed so far, each with what its arm wrote
  row,      \* the row being read: per TableCell, the leaf events inside it
  rows      \* the rows of the table completed so far, as `row`

vars == <<symbol, center, rs, out, status, open, budget, mode, sink, hist,
          row, rows>>

\* the event consumed last, and what it wrote
last == IF hist = <<>> THEN NoEvent ELSE hist[Len(hist)].ev
written == IF hist = <<>> THEN <<>> ELSE hist[Len(hist)].w

InitState ==
  [text_level |-> 0,
   in_code_block |-> FALSE,
   in_block_quote |-> FALSE,
   first_row |-> FALSE,
   in_code |-> FALSE,
   no_tab |-> FALSE,
   in_list |-> FALSE,
   in_table |-> FALSE,
   table_alignments |-> <<>>,
   current_row_cells |-> <<>>,
   is_header_row |-> FALSE,
   column_widths |-> <<>>]

InitWith(m, b, snk, centers) ==
  /\ symbol \in BOOLEAN
  /\ center \in centers
  /\ rs = InitState
  /\ out = <<>>
  /\ status = "running"
  /\ open = <<>>
  /\ budget = b
  /\ mode = m
  /\ sink = snk
  /\ hist = <<>>
  /\ row = <<>>
  /\ rows = <<>>

\* documents without tables
InitDoc == InitWith("doc", MaxEvents, "reliable", 0..MaxCenter)
\* documents that are one table
InitTable == InitWith("table", MaxTableEvents, "reliable", {0})
\* documents of headings and paragraphs with inline styles
InitInline == InitWith("inline", MaxInlineEvents, "reliable", 0..MaxCenter)

\* tables whose cells hold strong text
InitStyled == InitWith("styled", MaxStyledEvents, "reliable", {0})
\* streams in which an End need not match a Start
InitMalformed == InitWith("malformed", MaxMalformedEvents, "reliable", {0, MaxCenter})
\* documents without tables, written to a sink that may fail
InitSink == InitWith("doc", MaxSinkEvents, "unreliable", {0, MaxCenter})

\* tables of two rows of plain text
InitRows == InitWith("rows", MaxRowsEvents, "reliable", {0})

\* documents that are one short table
InitShortTable == InitWith("table", MaxShortTableEvents, "reliable", {0})

Init == InitDoc \/ InitShortTable

(* --------------------- well-formed event streams ----------------------- *)
Top == IF open = <<>> THEN "Doc" ELSE open[Len(open)]
Pop == SubSeq(open, 1, Len(open) - 1)
Push(t) == Append(open, t)

InlineTags == {"Strong", "Emphasis", "Strikethrough", "Link", "Image"}
BlockTags == {"Paragraph", "Heading", "BlockQuote", "CodeBlock", "List", "Table"}
BlockCtx == Top \in {"Doc", "BlockQuote", "Item"}
InlineCtx ==
  Top \in {"Paragraph", "Heading", "Item", "TableCell"} \cup InlineTags

Vocabulary ==
  CASE mode = "inline" ->
         {"Paragraph", "Heading", "Strong", "Emphasis", "Strikethrough",
          "Text", "SoftBreak"}
    [] mode = "table" ->
         {"Table", "TableHead", "TableRow", "TableCell",
          "Text", "Code", "SoftBreak", "HardBreak"}
    [] mode = "styled" ->
         {"Table", "TableHead", "TableRow", "TableCell", "Strong", "Text"}
    [] mode = "rows" ->
         {"Table", "TableHead", "TableRow", "TableCell", "Text"}
    [] mode = "malformed" ->
         BlockTags \cup InlineTags \cup
         {"Item", "TableHead", "TableRow", "TableCell", "Text", "Code",
          "SoftBreak", "HardBreak", "Rule", "FootnoteReference"}
    [] OTHER ->
         (BlockTags \ {"Table"}) \cup InlineTags \cup
         {"Item", "Text", "Code", "SoftBreak", "HardBreak", "Rule",
          "FootnoteReference"}

Texts ==
  CASE mode = "table" -> {Name, Age, Ann, Thirty}
    [] mode = "rows" -> {Name, Ann, Thirty}
    [] OTHER -> {Ann}

\* number of open tags t
Depth(t) == Cardinality({i \in 1..Len(open) : open[i] = t})

InCell == Depth("TableCell") > 0 /\ row # <<>>

After(kind, t) == last.kind = kind /\ last.tag = t

CanStart(t) ==
  /\ t \in Vocabulary
  /\ Len(open) < MaxDepth + Depth("Table") + Depth("TableHead")
  /\ CASE t \in BlockTags -> BlockCtx /\ (t = "Table" => last = NoEvent)
       [] t \in InlineTags -> InlineCtx
       [] t = "Item" -> Top = "List"
       [] t = "TableHead" -> Top = "Table" /\ After("Start", "Table")
       [] t = "TableRow" ->
            \/ Top = "TableHead" /\ After("Start", "TableHead")
            \/ /\ Top = "Table"
               /\ After("End", "TableHead") \/ After("End", "TableRow")
               /\ Len(rows) < MaxRows + 1
       [] t = "TableCell" ->
            /\ Len(row) < MaxCells
            /\ \/ Top = "TableRow"
               \/ /\ Top = "TableHead"
                  /\ After("Start", "TableHead") \/ After("End", "TableCell")
       [] OTHER -> FALSE

CanEnd(t) ==
  /\ t \in Vocabulary
  /\ \/ mode = "malformed"
     \/ /\ Top = t
        /\ t = "Table" => After("End", "TableHead") \/ After("End", "TableRow")
        /\ t = "TableHead" => ~After("Start", "TableHead")

CanLeaf(k) ==
  /\ k \in Vocabulary
  /\ CASE k = "Text" -> InlineCtx \/ Top = "CodeBlock"
       [] k = "Rule" -> BlockCtx
       [] OTHER -> InlineCtx
  /\ (InCell => Len(row[Len(row)]) < MaxCellEvents)

(* ----------------------------- the sink -------------------------------- *)
\* One iteration of `for event in parser` (line 85): the arm's writes w, then
\* stdout.flush()? (line 424).  Every sink call ends in `?`: when the sink
\* rejects the (k+1)-th item, or the flush, main returns the Err at once.
\* a sink error that is dropped instead of returned
OnSinkErrorIgnored == "running"

\* the `?` after a sink call that returned Err: main returns the error
OnSinkError == "aborted"

Handle(ev, w, rs2, open2) ==
  /\ status = "running"
  /\ budget > 0
  /\ budget' = budget - 1
  /\ open' = open2
  /\ UNCHANGED <<symbol, center, mode>>
  /\ \/ /\ out' = out \o w
        /\ hist' = Append(hist, [ev |-> ev, w |-> w])
        /\ rs' = rs2
        /\ UNCHANGED <<sink, status>>
     \/ /\ sink = "unreliable"
        /\ \E k \in 0..Len(w) :
             /\ out' = out \o SubSeq(w, 1, k)
             /\ hist' = Append(hist, [ev |-> ev, w |-> SubSeq(w, 1, k)])
        /\ sink' = "failed"
        /\ rs' = rs
        /\ status' = OnSinkError

Tabs == Repeat(<<TAB>>, rs.text_level)

(* --------------------------- Event::Start ------------------------------ *)
\* every Start arm is preceded by stdout.reset() (line 88)
HandleStart(t, ev, w, rs2) ==
  /\ CanStart(t)
  /\ Handle(ev, <<Reset>> \o w, rs2, Push(t))
  /\ UNCHANGED <<row, rows>>

StartParagraph == HandleStart("Paragraph", StartEv("Paragraph"), <<>>, rs)

\* the indentation without the --center offset
HeadingIndentNoOffset(level, c) == level - 1

\* line 93
HeadingIndent(level, c) == level - 1 + c

StartHeading ==
  \E level \in 1..6 :
    LET tl == HeadingIndent(level, center)
        hash_prefix == Repeat(<<"#">>, tl + 1)
        tab_prefix == Repeat(<<TAB>>, tl)
    IN HandleStart("Heading",
                   [StartEv("Heading") EXCEPT !.level = level],
                   <<NL, heading_color>> \o
                     (IF symbol THEN tab_prefix \o hash_prefix \o <<SP>>
                      ELSE tab_prefix),
                   [rs EXCEPT !.no_tab = TRUE, !.text_level = tl])

StrongDelimiter == <<"*", "*">>

StartStrong ==
  HandleStart("Strong", StartEv("Strong"),
              <<strong_color>> \o (IF symbol THEN StrongDelimiter ELSE <<>>),
              [rs EXCEPT !.no_tab = TRUE])

StartEmphasis ==
  HandleStart("Emphasis", StartEv("Emphasis"),
              <<emphasis_color>> \o (IF symbol THEN <<"*">> ELSE <<>>),
              [rs EXCEPT !.no_tab = TRUE])

StartStrikethrough ==
  HandleStart("Strikethrough", StartEv("Strikethrough"),
              <<strikethrough_color>> \o (IF symbol THEN <<"~", "~">> ELSE <<>>),
              [rs EXCEPT !.no_tab = TRUE])

StartBlockQuote ==
  HandleStart("BlockQuote", StartEv("BlockQuote"),
              <<blockquote_color, NL>> \o Tabs \o <<">", SP>>,
              [rs EXCEPT !.in_block_quote = TRUE, !.first_row = TRUE])

StartCodeBlock ==
  \E lang_str \in {<<>>, Lang} :
    HandleStart("CodeBlock", [StartEv("CodeBlock") EXCEPT !.text = lang_str],
                IF symbol
                  THEN Tabs \o <<fence_color>> \o Repeat(<<Backtick>>, 3) \o
                       <<code_color>> \o lang_str \o <<NL>>
                  ELSE <<code_color>>,
                [rs EXCEPT !.in_code_block = TRUE])

StartList == HandleStart("List", StartEv("List"), <<>>, rs)

StartItem ==
  HandleStart("Item", StartEv("Item"), Tabs \o <<"-", SP>>,
              [rs EXCEPT !.in_list = TRUE])

StartLink == HandleStart("Link", StartEv("Link"), <<"[">>, rs)

StartImage == HandleStart("Image", StartEv("Image"), <<"!", "[">>, rs)


StartTable ==
  \E alignments \in TableAlignments :
    /\ CanStart("Table")
    /\ Handle([StartEv("Table") EXCEPT !.aligns = alignments],
              <<Reset, NL>>,
              [rs EXCEPT !.in_table = TRUE,
                         !.table_alignments = alignments,
                         !.column_widths = <<>>,
                         !.current_row_cells = <<>>],
              Push("Table"))
    /\ row' = <<>>
    /\ rows' = <<>>

StartTableHead ==
  /\ CanStart("TableHead")
  /\ Handle(StartEv("TableHead"), <<Reset>>,
            [rs EXCEPT !.is_header_row = TRUE], Push("TableHead"))
  /\ row' = <<>>
  /\ UNCHANGED rows

StartTableRow ==
  /\ CanStart("TableRow")
  /\ Handle(StartEv("TableRow"), <<Reset>>,
            [rs EXCEPT !.current_row_cells = <<>>], Push("TableRow"))
  /\ row' = <<>>
  /\ UNCHANGED rows

StartTableCell ==
  /\ CanStart("TableCell")
  /\ Handle(StartEv("TableCell"), <<Reset>>, rs, Push("TableCell"))
  /\ row' = Append(row, <<>>)
  /\ UNCHANGED rows

(* ---------------------------- Event::End ------------------------------- *)
HandleEnd(t, w, rs2) ==
  /\ CanEnd(t)
  /\ Handle(EndEv(t), w, rs2, IF Top = t THEN Pop ELSE open)

EndParagraph ==
  HandleEnd("Paragraph", <<NL>>, rs) /\ UNCHANGED <<row, rows>>

EndHeading ==
  /\ HandleEnd("Heading", <<NL, Reset>>, [rs EXCEPT !.no_tab = FALSE])
  /\ UNCHANGED <<row, rows>>

\* what the close of an inline style does to no_tab (lines 191-208: nothing)
NoTabAfterStyle == rs.no_tab

EndStrong ==
  /\ HandleEnd("Strong",
               (IF symbol THEN StrongDelimiter ELSE <<>>) \o <<Reset>>,
               [rs EXCEPT !.no_tab = NoTabAfterStyle])
  /\ UNCHANGED <<row, rows>>

EndEmphasis ==
  /\ HandleEnd("Emphasis", (IF symbol THEN <<"*">> ELSE <<>>) \o <<Reset>>,
               [rs EXCEPT !.no_tab = NoTabAfterStyle])
  /\ UNCHANGED <<row, rows>>

EndStrikethrough ==
  /\ HandleEnd("Strikethrough",
               (IF symbol THEN <<"~", "~">> ELSE <<>>) \o <<Reset>>,
               [rs EXCEPT !.no_tab = NoTabAfterStyle])
  /\ UNCHANGED <<row, rows>>

EndBlockQuote ==
  /\ HandleEnd("BlockQuote", <<NL>>,
               [rs EXCEPT !.in_block_quote = FALSE, !.first_row = FALSE])
  /\ UNCHANGED <<row, rows>>

EndCodeBlock ==
  /\ HandleEnd("CodeBlock",
               Tabs \o <<fence_color>> \o
                 (IF symbol THEN Repeat(<<Backtick>>, 3) ELSE <<>>) \o <<NL>>,
               [rs EXCEPT !.in_code_block = FALSE])
  /\ UNCHANGED <<row, rows>>

EndList == HandleEnd("List", <<NL>>, rs) /\ UNCHANGED <<row, rows>>

EndItem ==
  /\ HandleEnd("Item", <<NL>>, [rs EXCEPT !.in_list = FALSE])
  /\ UNCHANGED <<row, rows>>

EndLink == HandleEnd("Link", <<")">>, rs) /\ UNCHANGED <<row, rows>>

EndImage == HandleEnd("Image", <<")">>, rs) /\ UNCHANGED <<row, rows>>

EndTableCell == HandleEnd("TableCell", <<>>, rs) /\ UNCHANGED <<row, rows>>

Max(a, b) == IF a >= b THEN a ELSE b

\* the widths of the cells of the row alone, whatever was measured before
WidenWidthsToRow(widths, cells) ==
  [i \in 1..Max(Len(widths), Len(cells)) |->
     IF i <= Len(cells) THEN StrLen(cells[i]) ELSE widths[i]]

\* lines 241-246: widen column_widths to cover the cells of the row
WidenWidths(widths, cells) ==
  [i \in 1..Max(Len(widths), Len(cells)) |->
     IF i <= Len(cells)
       THEN Max(IF i <= Len(widths) THEN widths[i] ELSE 0, StrLen(cells[i]))
       ELSE widths[i]]

\* table_alignments.get(i)
AlignmentAt(aligns, i) == IF i <= Len(aligns) THEN aligns[i] ELSE "Missing"

\* format!("{:<width$}"), format!("{:^width$}"), format!("{:>width$}")
FormatCell(align, width, s) ==
  LET pad == Max(0, width - Len(s))
  IN CASE align = "Center" ->
            Repeat(<<SP>>, pad \div 2) \o s \o Repeat(<<SP>>, pad - (pad \div 2))
       [] align = "Right" -> Repeat(<<SP>>, pad) \o s
       [] OTHER -> s \o Repeat(<<SP>>, pad)

\* lines 299-304
Separator(align, width) ==
  CASE align = "Left" -> <<":">> \o Repeat(<<"-">>, width)
    [] align = "Center" -> <<":">> \o Repeat(<<"-">>, width)
    [] align = "Right" -> Repeat(<<"-">>, width) \o <<":">>
    [] OTHER -> Repeat(<<"-">>, width)

\* lines 274-291, from cell i on
RECURSIVE PrintCells(_, _, _, _, _)
PrintCells(i, cells, widths, aligns, header) ==
  IF i > Len(cells) THEN <<>>
  ELSE (IF header THEN <<table_header_color>> ELSE <<>>) \o
       FormatCell(AlignmentAt(aligns, i),
                  IF i <= Len(widths) THEN widths[i] ELSE 0, cells[i]) \o
       <<table_border_color, "|", Reset>> \o
       PrintCells(i + 1, cells, widths, aligns, header)

\* lines 298-307, from column i on
RECURSIVE PrintSeparators(_, _, _)
PrintSeparators(i, widths, aligns) ==
  IF i > Len(widths) THEN <<>>
  ELSE Separator(AlignmentAt(aligns, i), widths[i]) \o <<"|">> \o
       PrintSeparators(i + 1, widths, aligns)

\* lines 270-292
RowLine(cells, widths, aligns, header) ==
  <<table_border_color, "|", Reset>> \o
  PrintCells(1, cells, widths, aligns, header) \o <<NL>>

\* lines 294-309
SeparatorLine(widths, aligns) ==
  <<table_border_color, "|">> \o PrintSeparators(1, widths, aligns) \o
  <<NL, Reset>>

EndTableRow ==
  LET widths == WidenWidths(rs.column_widths, rs.current_row_cells)
  IN /\ HandleEnd("TableRow",
                  RowLine(rs.current_row_cells, widths, rs.table_alignments,
                          rs.is_header_row) \o
                    (IF rs.is_header_row
                       THEN SeparatorLine(widths, rs.table_alignments)
                       ELSE <<>>),
                  [rs EXCEPT !.column_widths = widths, !.is_header_row = FALSE])
     /\ rows' = Append(rows, row)
     /\ UNCHANGED row

EndTableHead ==
  /\ HandleEnd("TableHead", <<>>, rs)
  /\ rows' = IF After("End", "TableRow") THEN rows ELSE Append(rows, row)
  /\ UNCHANGED row

EndTable ==
  /\ HandleEnd("Table", <<NL>>,
               [rs EXCEPT !.in_table = FALSE,
                          !.table_alignments = <<>>,
                          !.column_widths = <<>>])
  /\ UNCHANGED <<row, rows>>

(* ------------------------ leaf events ---------------------------------- *)
\* the leaf event is recorded in the cell that is being read, if any
Record(ev) ==
  /\ row' = IF InCell THEN [row EXCEPT ![Len(row)] = Append(@, ev)] ELSE row
  /\ UNCHANGED rows

HandleLeaf(ev, w, rs2) ==
  /\ CanLeaf(ev.kind)
  /\ Handle(ev, w, rs2, open)
  /\ Record(ev)

\* Vec::last_mut().push_str(s): nothing when the row has no cell yet
PushLast(cells, s) ==
  IF cells = <<>> THEN cells ELSE [cells EXCEPT ![Len(cells)] = @ \o s]

\* lines 336-344
TextInTable(text) ==
  IF rs.current_row_cells = <<>>
    THEN [w |-> text, cells |-> <<text>>]
    ELSE [w |-> <<>>, cells |-> PushLast(rs.current_row_cells, text)]

\* lines 346-349
TextIndent ==
  IF ~rs.in_list /\ ~rs.no_tab /\ ~rs.in_block_quote /\ ~rs.in_code
    THEN Tabs ELSE <<>>

\* lines 350-355
QuoteIndent ==
  IF rs.in_block_quote /\ rs.first_row /\ ~rs.in_code THEN <<>>
  ELSE IF rs.in_block_quote /\ ~rs.no_tab /\ ~rs.in_code
         THEN Tabs \o <<SP, SP>>
         ELSE <<>>

\* lines 356-359
CodeCloseMarker == IF rs.in_code THEN <<"~">> ELSE <<>>

Text ==
  \E text \in Texts :
    IF rs.in_table
      THEN HandleLeaf(LeafEv("Text", text), TextInTable(text).w,
                      [rs EXCEPT !.current_row_cells = TextInTable(text).cells])
      ELSE HandleLeaf(LeafEv("Text", text),
                      TextIndent \o QuoteIndent \o CodeCloseMarker \o text,
                      [rs EXCEPT !.first_row =
                                   IF rs.in_block_quote /\ rs.first_row /\ ~rs.in_code
                                     THEN FALSE ELSE @,
                                 !.in_code = FALSE])

\* format!("`{}`", code)
Quoted(code) == <<Backtick>> \o code \o <<Backtick>>

\* lines 368-373
CodeInTable(code) ==
  IF rs.current_row_cells = <<>> THEN <<Quoted(code)>>
  ELSE PushLast(rs.current_row_cells, Quoted(code))

\* lines 382-386
CodeSpan(code) == IF symbol THEN Quoted(code) ELSE code

Code ==
  \E code \in {Thirty} :
    IF rs.in_table
      THEN HandleLeaf(LeafEv("Code", code), <<>>,
                      [rs EXCEPT !.current_row_cells = CodeInTable(code)])
      ELSE HandleLeaf(LeafEv("Code", code),
                      (IF rs.in_code_block THEN Tabs ELSE <<>>) \o
                        <<code_color>> \o CodeSpan(code) \o <<Reset>>,
                      [rs EXCEPT !.in_code = IF rs.in_code_block THEN @ ELSE TRUE])

\* a break written as a blank line
LineBreakTwice == <<NL, NL>>

\* lines 397, 409: writeln!(stdout)
LineBreak == <<NL>>

\* lines 390-401: what the SoftBreak arm writes and the locals it leaves
SoftBreakEffect ==
  IF rs.in_table
    THEN [w |-> <<>>, rs |-> [rs EXCEPT !.current_row_cells = PushLast(@, <<SP>>)]]
    ELSE [w |-> LineBreak, rs |-> [rs EXCEPT !.in_list = FALSE]]

\* lines 402-411: what the HardBreak arm writes and the locals it leaves
HardBreakEffect ==
  IF rs.in_table
    THEN [w |-> <<>>, rs |-> [rs EXCEPT !.current_row_cells = PushLast(@, <<NL>>)]]
    ELSE [w |-> LineBreak, rs |-> rs]

SoftBreak ==
  HandleLeaf(LeafEv("SoftBreak", <<>>), SoftBreakEffect.w, SoftBreakEffect.rs)

HardBreak ==
  HandleLeaf(LeafEv("HardBreak", <<>>), HardBreakEffect.w, HardBreakEffect.rs)

Rule ==
  HandleLeaf(LeafEv("Rule", <<>>),
             <<NL, rule_color>> \o Tabs \o
               Repeat(<<"-", "-", "-">>, rs.text_level + 1) \o <<NL, Reset>>,
             rs)

FootnoteReference ==
  \E name \in {Ann} :
    HandleLeaf(LeafEv("FootnoteReference", name),
               <<"[", "^">> \o name \o <<"]">>, rs)

\* the parser is exhausted: line 428, then Ok(())
Finish ==
  /\ status = "running"
  /\ mode = "malformed" \/ open = <<>>
  /\ last # NoEvent
  /\ \/ /\ out' = Append(out, Reset)
        /\ hist' = Append(hist, [ev |-> Eof, w |-> <<Reset>>])
        /\ status' = "done"
        /\ UNCHANGED sink
     \/ /\ sink = "unreliable"
        /\ out' = out
        /\ hist' = Append(hist, [ev |-> Eof, w |-> <<>>])
        /\ sink' = "failed"
        /\ status' = OnSinkError
  /\ UNCHANGED <<symbol, center, rs, open, budget, mode, row, rows>>

Starts ==
  \/ StartParagraph \/ StartHeading \/ StartStrong \/ StartEmphasis
  \/ StartStrikethrough \/ StartBlockQuote \/ StartCodeBlock \/ StartList
  \/ StartItem \/ StartLink \/ StartImage

Ends ==
  \/ EndParagraph \/ EndHeading \/ EndStrong \/ EndEmphasis
  \/ EndStrikethrough \/ EndBlockQuote \/ EndCodeBlock \/ EndList
  \/ EndItem \/ EndLink \/ EndImage

TableEvents ==
  \/ StartTable \/ StartTableHead \/ StartTableRow \/ StartTableCell
  \/ EndTableCell \/ EndTableRow \/ EndTableHead \/ EndTable

Leaves == Text \/ Code \/ SoftBreak \/ HardBreak \/ Rule \/ FootnoteReference

Next == Starts \/ Ends \/ TableEvents \/ Leaves \/ Finish

Spec == Init /\ [][Next]_vars

NextDoc == Starts \/ Ends \/ Leaves \/ Finish

SpecDoc == InitDoc /\ [][NextDoc]_vars

NextTable ==
  \/ TableEvents
  \/ Text \/ Code \/ SoftBreak \/ HardBreak
  \/ Finish

SpecTable == InitTable /\ [][NextTable]_vars

NextInline ==
  \/ StartParagraph \/ StartHeading \/ StartStrong \/ StartEmphasis
  \/ StartStrikethrough
  \/ EndParagraph \/ EndHeading \/ EndStrong \/ EndEmphasis
  \/ EndStrikethrough
  \/ Text \/ SoftBreak
  \/ Finish

SpecInline == InitInline /\ [][NextInline]_vars

NextStyled == TableEvents \/ StartStrong \/ EndStrong \/ Text \/ Finish

SpecStyled == InitStyled /\ [][NextStyled]_vars

NextRows == TableEvents \/ Text \/ Finish

SpecRows == InitRows /\ [][NextRows]_vars

SpecMalformed == InitMalformed /\ [][Next]_vars

SpecSink == InitSink /\ [][NextDoc]_vars

(* ------------------------------ claims --------------------------------- *)
\* s has the contiguous run sub
Contains(s, sub) ==
  \E i \in 1..(Len(s) - Len(sub) + 1) : SubSeq(s, i, i + Len(sub) - 1) = sub

\* what a cell holds according to its events: its Text, its inline code in
\* backticks, a space per SoftBreak and a newline per HardBreak
RECURSIVE CellText(_)
CellText(cell) ==
  IF cell = <<>> THEN <<>>
  ELSE LET ev == Head(cell)
       IN (CASE ev.kind = "Text" -> ev.text
             [] ev.kind = "Code" -> Quoted(ev.text)
             [] ev.kind = "SoftBreak" -> <<SP>>
             [] ev.kind = "HardBreak" -> <<NL>>
             [] OTHER -> <<>>) \o CellText(Tail(cell))

RECURSIVE MaxOf(_)
MaxOf(S) ==
  IF S = {} THEN 0
  ELSE LET x == CHOOSE y \in S : TRUE IN Max(x, MaxOf(S \ {x}))

\* the widest i-th cell of the rows read so far
WidestCell(i) ==
  MaxOf({Len(CellText(rows[r][i])) : r \in {q \in 1..Len(rows) : i <= Len(rows[q])}})

RowEnded == status = "running" /\ After("End", "TableRow")

\* every cell read so far holds text and nothing else
CellsHaveText ==
  \A r \in 1..Len(rows) : \A i \in 1..Len(rows[r]) :
    /\ rows[r][i] # <<>>
    /\ \A k \in 1..Len(rows[r][i]) : rows[r][i][k].kind = "Text"

TextCell(s) == <<LeafEv("Text", s)>>

ExampleTable ==
  /\ RowEnded
  /\ rs.table_alignments = <<"Left", "Right">>
  /\ rows = <<<<TextCell(Name), TextCell(Age)>>, <<TextCell(Ann), TextCell(Thirty)>>>>

Line(s) == s \o <<NL>>

\* C1: after the rows [Name, Age] and [Ann, 30] of a table aligned
\* [Left, Right], column_widths is [4,3], both rows were written as two cells
\* padded to 4 and 3 (Age and 30 to the right), and the header row is followed
\* by one separator line; and at every TableRow End column_widths[i] is the
\* length of the longest i-th cell of the rows read so far (stated for rows
\* whose cells hold text only).
C1_WidthsOfExample ==
  /\ ExampleTable =>
       /\ rs.column_widths = <<4, 3>>
       /\ Contains(Visible(out), Line(<<"|">> \o Name \o <<"|">> \o Age \o <<"|">>))
       /\ Contains(Visible(out),
                   Line(<<"|">> \o Ann \o <<SP, "|", SP>> \o Thirty \o <<"|">>))
       /\ Count(":", Visible(out)) = 2
  /\ RowEnded /\ CellsHaveText =>
       /\ Len(rs.column_widths) = MaxOf({Len(rows[r]) : r \in 1..Len(rows)})
       /\ \A i \in 1..Len(rs.column_widths) : rs.column_widths[i] = WidestCell(i)

C1_ExampleRead == ExampleTable

Running == status = "running"

\* the index in hist of the Start(t) that the End(t) after hist[i] closes
\* (0 when there is none); depth counts the End(t) still to be matched
RECURSIVE MatchingStart(_, _, _)
MatchingStart(i, t, depth) ==
  IF i = 0 THEN 0
  ELSE LET ev == hist[i].ev
       IN IF ev.kind = "End" /\ ev.tag = t THEN MatchingStart(i - 1, t, depth + 1)
          ELSE IF ev.kind = "Start" /\ ev.tag = t
                 THEN IF depth = 0 THEN i ELSE MatchingStart(i - 1, t, depth - 1)
                 ELSE MatchingStart(i - 1, t, depth)

\* C2: with symbol echo, the Start of every Strong pair writes one `**`, its End
\* writes one `**`, and the text of every Text event between the two is
\* written between them.
C2_StrongBracketsText ==
  (symbol /\ Running /\ After("End", "Strong")) =>
    LET j == Len(hist)
        i == MatchingStart(j - 1, "Strong", 0)
    IN /\ i > 0
       /\ Visible(hist[i].w) = StrongDelimiter
       /\ Visible(hist[j].w) = StrongDelimiter
       /\ \A k \in (i + 1)..(j - 1) :
            hist[k].ev.kind = "Text" => Contains(hist[k].w, hist[k].ev.text)

\* the lines of an output, each without its newline
RECURSIVE Lines(_, _)
Lines(s, cur) ==
  IF s = <<>> THEN <<>>
  ELSE IF Head(s) = NL THEN <<cur>> \o Lines(Tail(s), <<>>)
       ELSE Lines(Tail(s), Append(cur, Head(s)))

IsRowLine(l) == l # <<>> /\ l[Len(l)] = "|"
IsSeparatorLine(l) == IsRowLine(l) /\ \A k \in 1..Len(l) : l[k] \in {"|", "-", ":"}
IsCellLine(l) == IsRowLine(l) /\ ~IsSeparatorLine(l)
OutLines == Lines(Visible(out), <<>>)
NumSeparatorLines ==
  Cardinality({k \in 1..Len(OutLines) : IsSeparatorLine(OutLines[k])})
NumCellLines == Cardinality({k \in 1..Len(OutLines) : IsCellLine(OutLines[k])})

HeaderOnlyTable ==
  /\ Running
  /\ After("End", "Table")
  /\ Len(rows) = 1
  /\ \E i \in 1..Len(rows[1]) : CellText(rows[1][i]) # <<>>

\* C3: when a table whose head has a non-empty cell and which has no body row
\* has ended, the output has one bordered header row, one separator line and
\* no other row.
C3_HeaderOnlyTable ==
  HeaderOnlyTable => NumSeparatorLines = 1 /\ NumCellLines = 1

IsBreak == Running /\ last.kind \in {"SoftBreak", "HardBreak"}

\* C4: every SoftBreak and every HardBreak writes exactly one line break.
C4_OneLineBreak == IsBreak => Count(NL, written) = 1

\* C4 (amended): outside a table every SoftBreak and every HardBreak writes
\* exactly one line break and nothing else; inside a table it writes nothing.
C4_OneLineBreakOutsideTable ==
  IsBreak => written = (IF rs.in_table THEN <<>> ELSE <<NL>>)

C4_BreakOutsideTable == IsBreak /\ ~rs.in_table /\ Len(hist) > 2

\* C5: Start(Heading(level)) sets text_level to level - 1 + center and writes
\* that many tabs, and nothing else, between the blank line and the heading's
\* content; the indentation grows with the level, and level 1 with center 2
\* is indented as level 3 with center 0.
C5_HeadingIndent ==
  /\ (Running /\ After("Start", "Heading")) =>
       LET n == last.level - 1 + center
           v == Visible(written)
       IN /\ rs.text_level = n
          /\ Count(TAB, v) = n
          /\ SubSeq(v, 1, n + 1) = <<NL>> \o Repeat(<<TAB>>, n)
  /\ \A level \in 1..5 :
       HeadingIndent(level + 1, center) > HeadingIndent(level, center)
  /\ HeadingIndent(1, 2) = HeadingIndent(3, 0)

C5_IndentedHeading ==
  Running /\ After("Start", "Heading") /\ last.level = 3 /\ center = MaxCenter

Delimiters == {"*", "~", "#", Backtick}

\* C6: without symbol echo no markup delimiter (`*`, `~`, `#`, backtick) is
\* written; the modelled texts hold none, so none may occur in the output.
C6_NoDelimiters == ~symbol => \A i \in 1..Len(out) : out[i] \notin Delimiters

\* C7: an End event of a construct of which no Start is open writes nothing
\* and changes no local of the renderer, and rendering goes on.
C7_UnmatchedEndIgnored ==
  [][(Running /\ hist' # hist /\ hist'[Len(hist')].ev.kind = "End"
        /\ Depth(hist'[Len(hist')].ev.tag) = 0)
       => (out' = out /\ rs' = rs /\ status' = "running")]_vars

\* C8: once a sink call has failed the render has returned the error: the
\* status is "aborted", nothing more is written and no event is consumed.
C8_AbortOnSinkError ==
  /\ [](sink = "failed" => status = "aborted")
  /\ [][sink = "failed" => (out' = out /\ hist' = hist)]_vars

C8_SinkFailedMidEvent ==
  /\ sink = "failed"
  /\ Len(hist) > 1
  /\ last.kind = "Start" /\ last.tag = "Heading" /\ Len(written) = 2

\* C10: a Text event inside nothing but a paragraph, when no inline style is
\* open, writes text_level tabs and then its text.
C10_TextIndented ==
  (Running /\ last.kind = "Text" /\ \A i \in 1..Len(open) : open[i] = "Paragraph")
    => Visible(written) = Repeat(<<TAB>>, rs.text_level) \o last.text

\* every cell of the row being read holds Text and inline code only
CellsHaveTextOrCode ==
  \A i \in 1..Len(row) : \A k \in 1..Len(row[i]) : row[i][k].kind \in {"Text", "Code"}

\* the contents of the cells of r of which something has been seen, in order
RECURSIVE SeenCells(_)
SeenCells(r) ==
  IF r = <<>> THEN <<>>
  ELSE (IF Head(r) = <<>> THEN <<>> ELSE <<CellText(Head(r))>>) \o SeenCells(Tail(r))

InTableRow == Running /\ (Depth("TableRow") > 0 \/ After("End", "TableRow"))

\* C11: from a TableRow Start to its End, current_row holds one entry per cell
\* of the row of which text has been seen, in cell order, each entry being the
\* Text and inline code of that cell alone; so at TableRow End its length is
\* the number of non-empty cells of the row (stated for rows whose cells hold
\* Text and inline code only).
C11_OneEntryPerCell ==
  (InTableRow /\ CellsHaveTextOrCode) => rs.current_row_cells = SeenCells(row)


CellLeaves == {"Text", "Code", "SoftBreak", "HardBreak"}

\* C12: while in_table is true a Text, inline code, SoftBreak or HardBreak
\* event writes nothing to the output (it only changes current_row), so cell
\* text reaches the output only in the bordered row of TableRow End.
C12_CellLeafWritesNothing ==
  (Running /\ rs.in_table /\ last.kind \in CellLeaves) => written = <<>>


TableOpen == Running /\ Depth("Table") > 0

\* the bordered cell lines written so far
CellLines == {k \in 1..Len(OutLines) : IsCellLine(OutLines[k])}

\* C13: no bordered row line of a table is written before its Table End has
\* been processed, and once it has, every row of the table is padded to the
\* same widths: all its row lines have the same length.
C13_RowsWrittenAtTableEnd ==
  /\ TableOpen => NumCellLines = 0 /\ NumSeparatorLines = 0
  /\ (Running /\ After("End", "Table")) =>
       \A k, l \in CellLines : Len(OutLines[k]) = Len(OutLines[l])


\* C14: between a Table Start and its Table End column_widths never shrinks
\* (its length never decreases and no entry decreases across any event), and
\* right after each TableRow End it has at least as many entries as
\* current_row, each at least the length of the entry of current_row.
C14_WidthsNeverShrink ==
  /\ [](RowEnded =>
          /\ Len(rs.column_widths) >= Len(rs.current_row_cells)
          /\ \A i \in 1..Len(rs.current_row_cells) :
               rs.column_widths[i] >= StrLen(rs.current_row_cells[i]))
  /\ [][(rs.in_table /\ rs'.in_table) =>
          /\ Len(rs'.column_widths) >= Len(rs.column_widths)
          /\ \A i \in 1..Len(rs.column_widths) :
               rs'.column_widths[i] >= rs.column_widths[i]]_vars

\* a second row narrower than the first has been measured
C14_NarrowerSecondRow ==
  /\ RowEnded
  /\ Len(rows) = 2
  /\ rs.column_widths = <<4>>
  /\ rs.current_row_cells = <<Ann>>


NoTableState ==
  /\ rs.table_alignments = <<>>
  /\ rs.column_widths = <<>>
  /\ rs.current_row_cells = <<>>
  /\ ~rs.is_header_row

\* C15: right after a Table End in_table is false, alignments, column_widths
\* and current_row are empty and is_header_row is false; so whenever in_table
\* is false no table buffer content exists.
C15_TableEndClearsState ==
  /\ (Running /\ After("End", "Table")) => ~rs.in_table /\ NoTableState
  /\ ~rs.in_table => NoTableState


\* the TableRow End of a row that began after TableHead End has been handled
BodyRowEnded == RowEnded /\ Depth("TableHead") = 0

\* the TableRow Ends so far that wrote a second line after the row line (the
\* cells of the rows read hold no line break)
SeparatorsWritten ==
  Cardinality({k \in 1..Len(hist) :
                 /\ hist[k].ev = EndEv("TableRow")
                 /\ Len(Lines(Visible(hist[k].w), <<>>)) > 1})

\* C16: whether or not the head's cells are wrapped in a TableRow pair, a body
\* row (one whose TableRow Start comes after TableHead End) is not written in
\* the header color and is not followed by a separator line, and a table has
\* at most one separator line.
C16_OnlyHeaderAsHeader ==
  /\ BodyRowEnded =>
       /\ \A k \in 1..Len(written) : written[k] # table_header_color
       /\ Len(Lines(Visible(written), <<>>)) = 1
  /\ SeparatorsWritten <= 1


\* a state in which the tokenizer may produce a line break
BreakPossible == Running /\ budget > 0 /\ CanLeaf("SoftBreak") /\ CanLeaf("HardBreak")

\* C17: SoftBreak and HardBreak are rendered identically: wherever a break may
\* occur the two events write the same characters and leave the same
\* renderer locals, so that replacing one by the other changes no output.
C17_BreaksAlike == BreakPossible => SoftBreakEffect = HardBreakEffect


\* C18: with symbol echo, Start(Heading(level)) writes, after the indentation,
\* a run of exactly `level` '#' characters and one space, whatever the
\* center offset is.
C18_HashRunIsLevel ==
  (symbol /\ Running /\ After("Start", "Heading")) =>
    LET v == Visible(written)
        n == Count(TAB, v)
    IN /\ Count("#", v) = last.level
       /\ v = <<NL>> \o Repeat(<<TAB>>, n) \o Repeat(<<"#">>, last.level) \o <<SP>>


\* s padded with l spaces before it and r after it, between two borders
Bordered(l, s, r) ==
  <<"|">> \o Repeat(<<SP>>, l) \o s \o Repeat(<<SP>>, r) \o <<"|">>

\* the paddings (l, r) that the alignment allows for a text in a column
Paddings(align, width, s) ==
  {p \in (0..width) \X (0..width) :
     /\ p[1] + p[2] + Len(s) = width
     /\ CASE align = "Right" -> p[2] = 0
          [] align = "Center" -> p[1] - p[2] \in {-1, 0, 1}
          [] OTHER -> p[1] = 0}

\* every cell of the row holds some Text or inline code
RowOfText == CellsHaveTextOrCode /\ \A i \in 1..Len(row) : row[i] # <<>>

\* C19: at TableRow End every cell i of the row is written whole, between two
\* border characters, padded with spaces to exactly column_widths[i]
\* characters: the text at the left for Left or no alignment, at the right for
\* Right, in the middle for Center (the two paddings differ by at most one).
C19_CellsPadded ==
  (RowEnded /\ RowOfText) =>
    \A i \in 1..Len(row) :
      /\ i <= Len(rs.column_widths)
      /\ \E p \in Paddings(AlignmentAt(rs.table_alignments, i),
                           rs.column_widths[i], CellText(row[i])) :
           Contains(Visible(written), Bordered(p[1], CellText(row[i]), p[2]))


\* C20: in a well-formed stream, after every event, in_block_quote is true
\* iff a BlockQuote is open, in_list iff an Item is open, in_code_block iff a
\* CodeBlock is open and in_table iff a Table is open.
C20_FlagsAgreeWithNesting ==
  Running =>
    /\ rs.in_block_quote <=> Depth("BlockQuote") > 0
    /\ rs.in_list <=> Depth("Item") > 0
    /\ rs.in_code_block <=> Depth("CodeBlock") > 0
    /\ rs.in_table <=> Depth("Table") > 0


\* the two lines a header row's TableRow End wrote: the row and the separator
HeaderRowEnded == RowEnded /\ Len(Lines(Visible(written), <<>>)) = 2

BorderPositions(l) == {k \in 1..Len(l) : l[k] = "|"}

RECURSIVE SumOf(_)
SumOf(s) == IF s = <<>> THEN 0 ELSE Head(s) + SumOf(Tail(s))

\* C21: the separator line written after the header row lines up with it:
\* for every alignment each separator cell takes exactly column_widths[i]
\* characters between borders, so the separator line is as long as the row
\* line written just before it and has its borders at the same positions.
C21_SeparatorLinesUp ==
  HeaderRowEnded =>
    LET ls == Lines(Visible(written), <<>>)
    IN /\ Len(ls[2]) = 1 + Len(rs.column_widths) + SumOf(rs.column_widths)
       /\ Len(ls[2]) = Len(ls[1])
       /\ BorderPositions(ls[2]) = BorderPositions(ls[1])

=============================================================================
